---- MODULE Spec2Model ----
(***************************************************************************)
(* lddcheck (src/src/main.rs): for every root path, the dependency graph   *)
(* of the root is analysed, every direct need is expanded into the set of  *)
(* in-scope resolved library paths (gather_deps_paths), every path of that *)
(* set is read and its symbol tables are scanned for "@@GLIBC_" version    *)
(* tags (find_required_glibc_version), and the tags are accumulated in the *)
(* table version -> function -> files, of which the N highest versions are *)
(* reported.                                                               *)
(*                                                                         *)
(* Strings whose characters the program inspects (symbol names, versions)  *)
(* are tuples of one-character strings; paths are tuples of components.    *)
(***************************************************************************)
EXTENDS Integers, Sequences, FiniteSets, TLC

VARIABLES
    paths,        \* parsed_args.paths: the root pathnames, in order
    analyses,     \* what analyze() answers for each root: [needed, libraries]
    files,        \* the file system: resolved path -> what reading/parsing gives
    pc,           \* position of main
    root_idx,     \* index of the root of the outer loop of main
    need_idx,     \* index of the direct need of the inner loop of main
    deps,         \* the analysis of the current root
    wants,        \* version -> function -> set of files
    visited,      \* resolved paths already put in a scan set
    errored,      \* path -> [kind, names]
    scan_count,   \* history: how often std::fs::read was called on each path
    scan_refs,    \* history: the (referenced_by, name, file) of every scan
    top_n,        \* parsed_args.versions, as read when the report is made
    user_wants,   \* the versions selected for the report
    sym_tab,      \* a symbol table under scan (specification SpecSym)
    sym_idx,      \* position of the scan in sym_tab
    sym_file      \* the file sym_tab belongs to

vars == <<paths, analyses, files, pc, root_idx, need_idx, deps, wants, visited,
          errored, scan_count, scan_refs, top_n, user_wants, sym_tab, sym_idx,
          sym_file>>

(***************************************************************************)
(* Bounds.                                                                 *)
(***************************************************************************)
\* Depth of gather_deps_paths calls the stack holds; a deeper call overflows.
StackLimit == 9
\* Largest value of --versions tried.
MaxTopN == 3
\* Largest number of pieces a generated symbol name is made of.
MaxPieces == 3

(***************************************************************************)
(* Strings.                                                                *)
(***************************************************************************)
\* The byte of each character used; String's Ord compares bytes.
Byte(c) ==
    CASE c = "." -> 46
      [] c = "1" -> 49
      [] c = "2" -> 50
      [] c = "4" -> 52
      [] c = "7" -> 55
      [] c = "9" -> 57
      [] c = "@" -> 64
      [] c = "f" -> 102

RECURSIVE StrLess(_, _)
\* a < b for Strings: lexicographic on bytes, a proper prefix is smaller.
StrLess(a, b) ==
    IF b = <<>> THEN FALSE
    ELSE IF a = <<>> THEN TRUE
    ELSE IF Byte(Head(a)) # Byte(Head(b)) THEN Byte(Head(a)) < Byte(Head(b))
    ELSE StrLess(Tail(a), Tail(b))

Marker == <<"@", "@", "G", "L", "I", "B", "C", "_">>

\* pat occurs in s at position i.
MatchAt(s, pat, i) ==
    /\ i >= 1
    /\ i + Len(pat) - 1 <= Len(s)
    /\ \A k \in 1..Len(pat) : s[i + k - 1] = pat[k]

\* str::contains
Contains(s, pat) == \E i \in 1..Len(s) : MatchAt(s, pat, i)

RECURSIVE Split(_, _)
\* str::split(pat).collect(): the pieces between the matches of pat, found
\* from the left and not overlapping.
Split(s, pat) ==
    IF ~Contains(s, pat) THEN <<s>>
    ELSE LET i == CHOOSE i \in 1..Len(s) :
                     /\ MatchAt(s, pat, i)
                     /\ \A j \in 1..(i - 1) : ~MatchAt(s, pat, j)
         IN <<SubSeq(s, 1, i - 1)>> \o Split(SubSeq(s, i + Len(pat), Len(s)), pat)

(***************************************************************************)
(* Maps.                                                                   *)
(***************************************************************************)
EmptyMap == [k \in {} |-> {}]

\* HashMap::insert / the value an entry is left with.
Put(m, k, v) == [x \in (DOMAIN m) \cup {k} |-> IF x = k THEN v ELSE m[x]]

\* errored.entry(key).or_insert((kind, {})).1.insert(nm)
ErrInsert(err, key, kind, nm) ==
    IF key \in DOMAIN err
    THEN [err EXCEPT ![key].names = @ \cup {nm}]
    ELSE Put(err, key, [kind |-> kind, names |-> {nm}])

\* map.entry(version).or_insert(..).entry(function).or_insert(..).insert(file)
WantsInsert(map, version, function, file) ==
    LET byfn == IF version \in DOMAIN map THEN map[version] ELSE EmptyMap
        fset == IF function \in DOMAIN byfn THEN byfn[function] ELSE {}
    IN Put(map, version, Put(byfn, function, fset \cup {file}))

(***************************************************************************)
(* Paths, scopes and the dependency graphs the analyser answers.           *)
(***************************************************************************)
\* Library names that occur as keys of a graph.
Names == {"a", "b", "c"}

\* The locations a library name can resolve to, and the path it is declared
\* with when it could not be located.
InPath(n) == <<"usr", "lib", n>>
OutPath(n) == <<"opt", n>>
DeclPath(n) == <<n>>

\* parsed_args.scopes
Scopes == << <<"usr", "lib">>, <<"srv">> >>

\* Path::starts_with: whole components.
StartsWith(path, base) ==
    /\ Len(base) <= Len(path)
    /\ SubSeq(path, 1, Len(base)) = base

\* scopes.iter().find(|scope| path.starts_with(scope)).is_some()
InScope(path, scopes) == \E i \in 1..Len(scopes) : StartsWith(path, scopes[i])

\* Option<PathBuf>: a tuple of no or one path.
None == <<>>
Some(x) == <<x>>

\* lddtree::Library as the program reads it: name, path, realpath, needed.
\* kind is where name resolved: "in" a scope, "out" of every scope, or "none".
Library(n, kind, needed) ==
    [name |-> n,
     path |-> IF kind = "in" THEN InPath(n)
              ELSE IF kind = "out" THEN OutPath(n) ELSE DeclPath(n),
     realpath |-> IF kind = "in" THEN Some(InPath(n))
                  ELSE IF kind = "out" THEN Some(OutPath(n)) ELSE None,
     needed |-> needed]

\* The needed lists a library file can carry ("u" is a name no graph knows).
NeededLists == {<<>>, <<"a">>, <<"b">>, <<"c">>, <<"b", "c">>, <<"u", "c">>}

Kinds == {"in", "out", "none"}

\* The root pathnames given on the command line and the PathBuf of each.
RootApp == "/usr/bin/app"
RootLibB == "/usr/lib/b"
PathBufFrom(s) ==
    CASE s = RootApp -> <<"usr", "bin", "app">>
      [] s = RootLibB -> <<"usr", "lib", "b">>

(***************************************************************************)
(* gather_deps_paths                                                       *)
(***************************************************************************)
\* VisitLibrary, were a library out of every scope a boundary of the walk.
VisitLibraryScopeBound(referenced_by, lib, scopes, st) ==
    IF lib.realpath # None
    THEN LET path == lib.realpath[1] IN
         IF InScope(path, scopes)
         THEN IF path \in st.paths
              THEN [st |-> st, descend |-> FALSE]
              ELSE IF path \in st.visited
              THEN [st |-> [st EXCEPT !.paths = @ \cup {path}],
                    descend |-> FALSE]
              ELSE [st |-> [st EXCEPT !.paths = @ \cup {path},
                                      !.visited = @ \cup {path}],
                    descend |-> TRUE]
         ELSE [st |-> st, descend |-> FALSE]
    ELSE [st |-> [st EXCEPT !.errored =
                      ErrInsert(@, lib.path, "not_found", referenced_by)],
          descend |-> TRUE]

\* Lines 453-465 for one known library: what becomes of the walk's state st
\* = [paths, visited, errored, overflow], and whether the walk goes on into
\* lib.needed.
VisitLibrary(referenced_by, lib, scopes, st) ==
    IF lib.realpath # None
    THEN LET path == lib.realpath[1] IN
         IF InScope(path, scopes)
         THEN IF path \in st.paths
              THEN [st |-> st, descend |-> FALSE]
              ELSE IF path \in st.visited
              THEN [st |-> [st EXCEPT !.paths = @ \cup {path}],
                    descend |-> FALSE]
              ELSE [st |-> [st EXCEPT !.paths = @ \cup {path},
                                      !.visited = @ \cup {path}],
                    descend |-> TRUE]
         ELSE [st |-> st, descend |-> TRUE]
    ELSE [st |-> [st EXCEPT !.errored =
                      ErrInsert(@, lib.path, "not_found", referenced_by)],
          descend |-> TRUE]

RECURSIVE gather_deps_paths(_, _, _, _, _, _)
RECURSIVE gather_needed(_, _, _, _, _, _, _)

\* The call gather_deps_paths(referenced_by, name, ..) made at call depth
\* depth. A call deeper than the stack holds overflows it, which ends the
\* process.
gather_deps_paths(referenced_by, name, libraries, scopes, st, depth) ==
    IF st.overflow THEN st
    ELSE IF depth > StackLimit THEN [st EXCEPT !.overflow = TRUE]
    ELSE IF name \notin DOMAIN libraries THEN st
    ELSE LET lib == libraries[name]
             v == VisitLibrary(referenced_by, lib, scopes, st)
         IN IF v.descend
            THEN gather_needed(referenced_by, lib.needed, 1, libraries, scopes,
                               v.st, depth)
            ELSE v.st

\* The loop over lib.needed of lines 467-477, from its i-th element on.
gather_needed(referenced_by, needed, i, libraries, scopes, st, depth) ==
    IF i > Len(needed) \/ st.overflow THEN st
    ELSE gather_needed(referenced_by, needed, i + 1, libraries, scopes,
             gather_deps_paths(referenced_by, needed[i], libraries, scopes, st,
                               depth + 1),
             depth)

(***************************************************************************)
(* Files and their symbol tables.                                          *)
(***************************************************************************)
\* What str.get(sym.st_name) answers for one symbol: Ok(name) or Err.
Named(name) == [ok |-> TRUE, name |-> name]
BadName == [ok |-> FALSE, name |-> <<>>]

Tagged(function, version) == Named(function \o Marker \o version)

Memcpy == <<"m", "e", "m", "c", "p", "y">>
Foo == <<"f", "o", "o">>
Bar == <<"b", "a", "r">>
LocalHelper == <<"l", "o", "c", "a", "l", "_", "h", "e", "l", "p", "e", "r">>
V2_14 == <<"2", ".", "1", "4">>
V2_17 == <<"2", ".", "1", "7">>
V2_2 == <<"2", ".", "2">>
V2_4 == <<"2", ".", "4">>
V9_9 == <<"9", ".", "9">>

\* A file: status is what reading and decoding it comes to ("ok", or
\* "cannot_read": std::fs::read fails, "cannot_parse": minimal_parse fails,
\* "no_common": find_common_data fails); dynsym and symtab are the symbol
\* tables of an "ok" file, each an Option of the names of its symbols.
File(status, dynsym, symtab) ==
    [status |-> status, dynsym |-> dynsym, symtab |-> symtab]

FileStatuses == {"ok", "cannot_read", "cannot_parse", "no_common"}

\* The libraries on disk; the status of /usr/lib/b is b_status.
FileSystem(b_status) ==
    [p \in {InPath(n) : n \in Names} \cup {OutPath(n) : n \in Names} |->
        IF p = InPath("a")
        THEN File("ok",
                  Some(<<Tagged(Memcpy, V2_14), Named(LocalHelper), Named(<<>>)>>),
                  Some(<<Tagged(Foo, V2_4)>>))
        ELSE IF p = InPath("b")
        THEN File(b_status,
                  Some(<<Tagged(Foo, V2_2), BadName,
                         Named(Bar \o Marker \o V2_4 \o Marker \o V2_17)>>),
                  None)
        ELSE IF p = InPath("c")
        THEN File("ok", None, Some(<<Tagged(Bar, V2_17), Tagged(Foo, V2_4)>>))
        ELSE File("ok", Some(<<Tagged(Foo, V9_9)>>), None)]

(***************************************************************************)
(* find_required_glibc_version                                             *)
(***************************************************************************)
\* ScanSymbol, were the number of parts not checked.
ScanSymbolAnyParts(referenced_by, sym, from_file, st) ==
    IF sym.ok
    THEN IF sym.name # <<>> /\ Contains(sym.name, Marker)
         THEN LET parsed == Split(sym.name, Marker) IN
              [st EXCEPT !.wants = WantsInsert(@, parsed[2], parsed[1], from_file)]
         ELSE st
    ELSE [st EXCEPT !.errored = ErrInsert(@, from_file, "", referenced_by)]

\* The body of the loop of lines 355-378 for one symbol; st = [wants, errored].
ScanSymbol(referenced_by, sym, from_file, st) ==
    IF sym.ok
    THEN IF sym.name # <<>> /\ Contains(sym.name, Marker)
         THEN LET parsed == Split(sym.name, Marker) IN
              IF Len(parsed) # 2 THEN st
              ELSE [st EXCEPT !.wants =
                        WantsInsert(@, parsed[2], parsed[1], from_file)]
         ELSE st
    ELSE [st EXCEPT !.errored = ErrInsert(@, from_file, "", referenced_by)]

RECURSIVE find_required_glibc_version(_, _, _, _, _)
\* The loop over tab, from its i-th symbol on.
find_required_glibc_version(referenced_by, tab, i, from_file, st) ==
    IF i > Len(tab) THEN st
    ELSE find_required_glibc_version(referenced_by, tab, i + 1, from_file,
             ScanSymbol(referenced_by, tab[i], from_file, st))

\* if let (Some(tab), Some(strs)) = .. { find_required_glibc_version(..) }
ScanTable(referenced_by, opt_tab, from_file, st) ==
    IF opt_tab = None THEN st
    ELSE find_required_glibc_version(referenced_by, opt_tab[1], 1, from_file, st)

(***************************************************************************)
(* gather_deps_required_libc_version                                       *)
(***************************************************************************)
\* Lines 401-439 for one lib_path of the scan set; st = [wants, errored].
ScanFile(referenced_by, name, lib_path, fs, st) ==
    LET f == fs[lib_path] IN
    IF f.status = "cannot_read"
    THEN [st EXCEPT !.errored = ErrInsert(@, lib_path, "cannot_read", name)]
    ELSE IF f.status = "cannot_parse"
    THEN [st EXCEPT !.errored = ErrInsert(@, lib_path, "cannot_parse", name)]
    ELSE IF f.status = "no_common"
    THEN st
    ELSE ScanTable(referenced_by, f.symtab, lib_path,
             ScanTable(referenced_by, f.dynsym, lib_path, st))

RECURSIVE ScanFiles(_, _, _, _, _, _)
\* for lib_path in paths, in the order the set is iterated in.
ScanFiles(referenced_by, name, order, i, fs, st) ==
    IF i > Len(order) THEN st
    ELSE ScanFiles(referenced_by, name, order, i + 1, fs,
             ScanFile(referenced_by, name, order[i], fs, st))

RECURSIVE Orders(_)
\* The orders a HashSet can be iterated in.
Orders(S) ==
    IF S = {} THEN {<<>>}
    ELSE UNION {{<<x>> \o o : o \in Orders(S \ {x})} : x \in S}

(***************************************************************************)
(* The selection of the highest versions, lines 192-199 (214-221, 250-257) *)
(***************************************************************************)
RECURSIVE SortAsc(_)
\* versions.sort() of a vector of distinct strings.
SortAsc(S) ==
    IF S = {} THEN <<>>
    ELSE LET m == CHOOSE x \in S : \A y \in S \ {x} : StrLess(x, y)
         IN <<m>> \o SortAsc(S \ {m})

\* versions.reverse()
Reverse(s) == [i \in 1..Len(s) |-> s[Len(s) + 1 - i]]

\* iter().take(n).collect()
Take(s, n) == SubSeq(s, 1, IF n < Len(s) THEN n ELSE Len(s))

\* select_top_n, were the sorted vector not reversed.
select_top_n_ascending(map, n) == Take(SortAsc(DOMAIN map), n)

select_top_n(map, n) == Take(Reverse(SortAsc(DOMAIN map)), n)

(***************************************************************************)
(* main                                                                    *)
(***************************************************************************)
AllPaths == {InPath(n) : n \in Names} \cup {OutPath(n) : n \in Names}

\* The state before the loop over the roots. The first root is a program
\* that needs a and b; the second root is the library file /usr/lib/b, so its
\* direct needs are those of b. The needed list of a library is that of its
\* file; the two roots resolve c independently (their search paths differ).
Init ==
    /\ paths = <<RootApp, RootLibB>>
    /\ \E needed_of \in [Names -> NeededLists], kind \in [Names -> Kinds],
          c_kind \in Kinds :
          analyses =
            << [needed |-> <<"a", "b">>,
                libraries |-> [n \in Names |-> Library(n, kind[n], needed_of[n])]],
               [needed |-> needed_of["b"],
                libraries |-> [n \in Names |->
                    Library(n, IF n = "c" THEN c_kind ELSE kind[n], needed_of[n])]] >>
    /\ \E b_status \in FileStatuses : files = FileSystem(b_status)
    /\ pc = "loop"
    /\ root_idx = 1
    /\ need_idx = 1
    /\ deps = [needed |-> <<>>, libraries |-> EmptyMap]
    /\ wants = EmptyMap
    /\ visited = {}
    /\ errored = EmptyMap
    /\ scan_count = [p \in AllPaths |-> 0]
    /\ scan_refs = {}
    /\ top_n = 0
    /\ user_wants = <<>>
    /\ sym_tab = <<>>
    /\ sym_idx = 1
    /\ sym_file = InPath("a")

\* Line 176-177: the next root is analysed.
AnalyzeOk ==
    /\ pc = "loop"
    /\ root_idx <= Len(paths)
    /\ deps' = analyses[root_idx]
    /\ need_idx' = 1
    /\ IF analyses[root_idx].needed = <<>>
       THEN pc' = "loop" /\ root_idx' = root_idx + 1
       ELSE pc' = "gather" /\ root_idx' = root_idx
    /\ UNCHANGED <<paths, analyses, files, wants, visited, errored, scan_count,
                   scan_refs, top_n, user_wants, sym_tab, sym_idx, sym_file>>

\* Line 177: analyze(..)? fails and main returns the error.
AnalyzeErr ==
    /\ pc = "loop"
    /\ root_idx <= Len(paths)
    /\ pc' = "error"
    /\ UNCHANGED <<paths, analyses, files, root_idx, need_idx, deps, wants,
                   visited, errored, scan_count, scan_refs, top_n, user_wants,
                   sym_tab, sym_idx, sym_file>>

\* The walk gather_deps_required_libc_version starts with (line 390-399).
Walk(referenced_by, name) ==
    gather_deps_paths(referenced_by, name, deps.libraries, Scopes,
        [paths |-> {}, visited |-> visited, errored |-> errored,
         overflow |-> FALSE], 1)

\* Lines 178-188: gather_deps_required_libc_version for the next direct need.
Gather ==
    /\ pc = "gather"
    /\ need_idx <= Len(deps.needed)
    /\ LET referenced_by == paths[root_idx]
           name == deps.needed[need_idx]
           w == Walk(referenced_by, name)
       IN IF w.overflow
          THEN /\ pc' = "overflow"
               /\ UNCHANGED <<root_idx, need_idx, wants, visited, errored,
                              scan_count, scan_refs>>
          ELSE /\ \E order \in Orders(w.paths) :
                     LET s == ScanFiles(referenced_by, name, order, 1, files,
                                        [wants |-> wants, errored |-> w.errored])
                     IN wants' = s.wants /\ errored' = s.errored
               /\ visited' = w.visited
               /\ scan_count' = [p \in AllPaths |->
                                   scan_count[p] + IF p \in w.paths THEN 1 ELSE 0]
               /\ scan_refs' = scan_refs \cup
                     {[referenced_by |-> referenced_by, name |-> name, file |-> p] :
                        p \in w.paths}
               /\ IF need_idx < Len(deps.needed)
                  THEN pc' = "gather" /\ need_idx' = need_idx + 1
                                      /\ root_idx' = root_idx
                  ELSE pc' = "loop" /\ need_idx' = need_idx
                                    /\ root_idx' = root_idx + 1
    /\ UNCHANGED <<paths, analyses, files, deps, top_n, user_wants, sym_tab,
                   sym_idx, sym_file>>

\* Lines 191-345 once every root is done: the versions are selected, and the
\* process exits with 1 when a root path is a key of errored.
Report ==
    /\ pc = "loop"
    /\ root_idx > Len(paths)
    /\ \E n \in 0..MaxTopN : top_n' = n /\ user_wants' = select_top_n(wants, n)
    /\ pc' = IF /\ DOMAIN errored # {}
                /\ \E i \in 1..Len(paths) : PathBufFrom(paths[i]) \in DOMAIN errored
             THEN "exit1" ELSE "exit0"
    /\ UNCHANGED <<paths, analyses, files, root_idx, need_idx, deps, wants,
                   visited, errored, scan_count, scan_refs, sym_tab, sym_idx,
                   sym_file>>

Next == AnalyzeOk \/ AnalyzeErr \/ Gather \/ Report

Spec == Init /\ [][Next]_vars

(***************************************************************************)
(* The scan of one symbol table, symbol by symbol.                         *)
(***************************************************************************)
Pieces == {<<"f">>, <<"@">>, <<"2">>, Marker}

RECURSIVE Flatten(_)
Flatten(ps) == IF ps = <<>> THEN <<>> ELSE Head(ps) \o Flatten(Tail(ps))

\* The symbol names tried: up to MaxPieces pieces in a row, and the two
\* names of real binaries.
SymNames ==
    {Flatten(ps) : ps \in UNION {[1..k -> Pieces] : k \in 0..MaxPieces}}
        \cup {Memcpy \o Marker \o V2_14, LocalHelper}

SymPool == {Named(s) : s \in SymNames} \cup {BadName}

\* A table of two symbols of sym_file is about to be scanned; the table of
\* wanted versions is empty or already holds a tag found in another file.
InitSym ==
    /\ \E e1, e2 \in SymPool : sym_tab = <<e1, e2>>
    /\ sym_idx = 1
    /\ sym_file = InPath("a")
    /\ wants \in {EmptyMap, WantsInsert(EmptyMap, <<"2">>, <<"f">>, InPath("c"))}
    /\ errored = EmptyMap
    /\ pc = "scan"
    /\ paths = <<RootApp>>
    /\ analyses = <<>>
    /\ files = FileSystem("ok")
    /\ root_idx = 1
    /\ need_idx = 1
    /\ deps = [needed |-> <<>>, libraries |-> EmptyMap]
    /\ visited = {}
    /\ scan_count = [p \in AllPaths |-> 0]
    /\ scan_refs = {}
    /\ top_n = 0
    /\ user_wants = <<>>

\* One turn of the loop of find_required_glibc_version.
FindSym ==
    /\ pc = "scan"
    /\ sym_idx <= Len(sym_tab)
    /\ LET s == ScanSymbol(paths[root_idx], sym_tab[sym_idx], sym_file,
                           [wants |-> wants, errored |-> errored])
       IN wants' = s.wants /\ errored' = s.errored
    /\ sym_idx' = sym_idx + 1
    /\ UNCHANGED <<paths, analyses, files, pc, root_idx, need_idx, deps, visited,
                   scan_count, scan_refs, top_n, user_wants, sym_tab, sym_file>>

NextSym == FindSym

SpecSym == InitSym /\ [][NextSym]_vars

(***************************************************************************)
(* Vocabulary of the properties.                                           *)
(***************************************************************************)
Range(s) == {s[i] : i \in 1..Len(s)}

Roots == 1..Len(paths)
Graph(r) == analyses[r].libraries
Resolved(lib) == lib.realpath # None
InScopeLib(lib) == Resolved(lib) /\ InScope(lib.realpath[1], Scopes)
OutOfScopeLib(lib) == Resolved(lib) /\ ~InScope(lib.realpath[1], Scopes)

\* Whether the edges leaving lib count for the reachability called mode.
Passable(lib, mode) ==
    CASE mode = "resolved" -> Resolved(lib)
      [] mode = "out" -> OutOfScopeLib(lib)

RECURSIVE Reach(_, _, _)
\* The names of graph g reachable from the names S along needed lists,
\* leaving only libraries that are passable.
Reach(g, S, mode) ==
    LET T == S \cup {m \in DOMAIN g :
                       \E n \in S : Passable(g[n], mode) /\ m \in Range(g[n].needed)}
    IN IF T = S THEN S ELSE Reach(g, T, mode)

\* The names reachable from the direct needs of root r.
ReachOfRoot(r, mode) ==
    Reach(Graph(r), Range(analyses[r].needed) \cap DOMAIN Graph(r), mode)

Ended == pc \in {"exit0", "exit1"}

\* The k-th direct need of root r has been gathered.
Gathered(r, k) ==
    \/ r < root_idx
    \/ r = root_idx /\ pc \in {"gather", "overflow"} /\ k < need_idx

Scanned(p) == scan_count[p] >= 1

(***************************************************************************)
(* C1: over a whole run every resolved path enters a scan set, and is read *)
(* and scanned, at most once, whatever edges, direct needs or roots reach  *)
(* it.                                                                     *)
(***************************************************************************)
C1_ScannedAtMostOnce == \A p \in AllPaths : scan_count[p] <= 1

C3_ClosureComplete ==
    Ended =>
       \A r \in Roots : \A n \in ReachOfRoot(r, "resolved") :
          InScopeLib(Graph(r)[n]) =>
             /\ Graph(r)[n].realpath[1] \in visited
             /\ Scanned(Graph(r)[n].realpath[1])

(***************************************************************************)
(* C4 (the selected sequence): it is the first min(n, number of versions) *)
(* keys of the table, in descending order of the raw strings, without duplicates;       *)
(* {"2.2", "2.17", "2.4"} gives <<"2.4", "2.2", "2.17">>; making the       *)
(* selection leaves the table as it was.                                   *)
(***************************************************************************)
C4_Selected ==
    Ended =>
       LET K == DOMAIN wants
           want_len == IF top_n < Cardinality(K) THEN top_n ELSE Cardinality(K)
       IN /\ Len(user_wants) = want_len
          /\ \A i \in 1..Len(user_wants) : user_wants[i] \in K
          /\ \A i, j \in 1..Len(user_wants) :
                i < j => StrLess(user_wants[j], user_wants[i])
          /\ \A k \in K \ Range(user_wants) :
                \A i \in 1..Len(user_wants) : StrLess(k, user_wants[i])
          /\ (K = {V2_2, V2_17, V2_4} /\ top_n >= 3)
                => user_wants = <<V2_4, V2_2, V2_17>>
          /\ (K = {V2_14, V2_2, V2_17, V2_4} /\ top_n = 3)
                => user_wants = <<V2_4, V2_2, V2_17>>

\* C4: the selection of every ended run is as C4_Selected says, and the
\* step that makes it leaves the table unchanged.
C4_SelectTopN ==
    /\ []C4_Selected
    /\ [][(pc = "loop" /\ pc' \in {"exit0", "exit1"}) => wants' = wants]_vars

\* The table holds exactly 2.2, 2.17 and 2.4, and more versions were asked
\* for than there are.
C4_Witness ==
    /\ Ended
    /\ DOMAIN wants = {V2_2, V2_17, V2_4}
    /\ top_n = 3
    /\ user_wants = <<V2_4, V2_2, V2_17>>

(***************************************************************************)
(* C5: a run ends in failure exactly when a root path is a key of the      *)
(* final error map; no other failure ends the run.                         *)
(***************************************************************************)
C5_FailsIffRootErrored ==
    pc \in {"exit0", "exit1", "error"} =>
       (pc # "exit0" <=> \E i \in Roots : PathBufFrom(paths[i]) \in DOMAIN errored)

(***************************************************************************)
(* C6: when two different libraries reached from a root both need the same *)
(* library that has no resolved path, the run ends with a not-found record *)
(* under that library's declared path whose names hold both referrers.     *)
(***************************************************************************)
C6_ReferrersAccumulate ==
    Ended =>
       \A r \in Roots : \A x, y \in ReachOfRoot(r, "resolved") :
          \A m \in DOMAIN Graph(r) :
             ( /\ x # y
               /\ Resolved(Graph(r)[x]) /\ Resolved(Graph(r)[y])
               /\ ~Resolved(Graph(r)[m])
               /\ m \in Range(Graph(r)[x].needed)
               /\ m \in Range(Graph(r)[y].needed) )
             => /\ Graph(r)[m].path \in DOMAIN errored
                /\ errored[Graph(r)[m].path].kind = "not_found"
                /\ {x, y} \subseteq errored[Graph(r)[m].path].names

(***************************************************************************)
(* C7: a scanned symbol whose name is not empty and holds the marker       *)
(* exactly once adds the file to table[version][function], function being  *)
(* the text before the marker and version the text after it                *)
(* ("memcpy@@GLIBC_2.14": version "2.14", function "memcpy"), and nothing  *)
(* else changes; a name without the marker, or with two or more markers,   *)
(* changes neither the table nor the error map.                            *)
(***************************************************************************)
MarkerAt(name) == {i \in 1..Len(name) : MatchAt(name, Marker, i)}

\* table is old with file added under version and function.
AddedTo(old, table, version, function, file) ==
    /\ DOMAIN table = DOMAIN old \cup {version}
    /\ \A v \in DOMAIN old \ {version} : table[v] = old[v]
    /\ DOMAIN table[version] =
          (IF version \in DOMAIN old THEN DOMAIN old[version] ELSE {})
              \cup {function}
    /\ \A f \in DOMAIN table[version] \ {function} : table[version][f] = old[version][f]
    /\ table[version][function] =
          (IF version \in DOMAIN old /\ function \in DOMAIN old[version]
           THEN old[version][function] ELSE {}) \cup {file}

C7_TagParsing ==
    [][(pc = "scan" /\ sym_idx' = sym_idx + 1 /\ sym_tab[sym_idx].ok) =>
          LET name == sym_tab[sym_idx].name
              at == MarkerAt(name)
          IN IF Cardinality(at) = 1
             THEN LET i == CHOOSE i \in at : TRUE
                      function == SubSeq(name, 1, i - 1)
                      version == SubSeq(name, i + Len(Marker), Len(name))
                  IN /\ AddedTo(wants, wants', version, function, sym_file)
                     /\ errored' = errored
                     /\ (name = Memcpy \o Marker \o V2_14)
                           => sym_file \in wants'[V2_14][Memcpy]
             ELSE wants' = wants /\ errored' = errored]_vars

\* "f@@GLIBC_2" and then a name with two markers have been scanned.
C7_Witness ==
    /\ pc = "scan" /\ sym_idx = 3
    /\ sym_tab[1] = Tagged(<<"f">>, <<"2">>)
    /\ Cardinality(MarkerAt(sym_tab[2].name)) = 2
    /\ sym_file \in wants[<<"2">>][<<"f">>]
    /\ DOMAIN wants = {<<"2">>}

(***************************************************************************)
(* C8: on every finite graph the walk started from a direct need           *)
(* terminates, whatever libraries lie on its cycles.                       *)
(***************************************************************************)
C8_WalkTerminates == pc # "overflow"

(***************************************************************************)
(* C9: the walk does not go on into the needed list of a library without   *)
(* resolved path: what is reachable only through such a library is neither *)
(* visited nor reported as not found.                                      *)
(***************************************************************************)
C9_NoWalkBelowUnresolved ==
    /\ \A p \in visited :
          \E r \in Roots : \E n \in ReachOfRoot(r, "resolved") :
             Graph(r)[n].realpath = Some(p)
    /\ \A key \in DOMAIN errored :
          errored[key].kind = "not_found" =>
             \E r \in Roots : \E n \in ReachOfRoot(r, "resolved") :
                ~Resolved(Graph(r)[n]) /\ Graph(r)[n].path = key

(***************************************************************************)
(* C10: after the scan of a file of a scan set with referrer               *)
(* referenced_by, a file that cannot be read has a record of kind          *)
(* cannot-read, and a file whose decoding fails at any step a record of    *)
(* kind cannot-parse, whose names hold referenced_by.                      *)
(***************************************************************************)
C10_ScanErrorsRecorded ==
    \A s \in scan_refs :
       LET status == files[s.file].status IN
       /\ status = "cannot_read" =>
             /\ s.file \in DOMAIN errored
             /\ errored[s.file].kind = "cannot_read"
             /\ s.referenced_by \in errored[s.file].names
       /\ status \in {"cannot_parse", "no_common"} =>
             /\ s.file \in DOMAIN errored
             /\ errored[s.file].kind = "cannot_parse"
             /\ s.referenced_by \in errored[s.file].names

====
